---------------------------- MODULE Spec2Model ----------------------------
(***************************************************************************)
(* A model of the DKB transaction fetcher.                                 *)
(*                                                                         *)
(*   server/dkb_fetch.py          the parent: the captcha retry loop       *)
(*                                (get_captcha_token), the patched login   *)
(*                                (patched_token_get), the patched         *)
(*                                approval poller (patched_app_finalize),  *)
(*                                fetch_transactions and main.             *)
(*   server/get_captcha_token.py  the child: one browser session that      *)
(*                                waits for a redeem token.                *)
(*                                                                         *)
(* Spec is the parent process; the child of one attempt is seen by the     *)
(* parent as the result of subprocess.run.  ChildSpec is one run of the    *)
(* child process.                                                          *)
(***************************************************************************)
EXTENDS Integers, Sequences, FiniteSets, TLC

VARIABLES
    \* ---- parent (dkb_fetch.py) ----
    pc,             \* position of the parent
    max_retries,    \* get_captcha_token's parameter
    attempt,        \* loop variable of get_captcha_token
    result,         \* what subprocess.run gave in the current attempt
    captcha_token,  \* value returned by get_captcha_token (None before/without)
    launched,       \* number of child processes started
    active,         \* number of child processes running
    cooldowns,      \* number of 5-second retry sleeps
    outcomes,       \* outcome of each finished attempt, in order
    posted,         \* captcha tokens carried by the login requests sent
    status_code,    \* status of the token endpoint's last answer (0: none yet)
    cnt,            \* patched_app_finalize: iteration counter
    mfa_completed,  \* patched_app_finalize: result flag
    response,       \* patched_app_finalize: last status response
    requests,       \* number of status requests issued
    sleeps,         \* number of 5-second sleeps of the poller
    transients,     \* TRUE once a status poll failed in transit
    notices,        \* iteration numbers after which "still waiting" was printed
    diag,           \* kinds of notices the poller wrote to stderr
    noise,          \* lines other than the result written to stdout
    account_id,     \* fetch_transactions' parameter
    account_dic,    \* ids of the accounts of the session
    targets,        \* accounts whose transactions are still to fetch
    skipped,        \* accounts whose fetch raised
    ret,            \* value returned by fetch_transactions
    stdout,         \* structured results the parent printed
    \* ---- child (get_captcha_token.py) ----
    cpc,             \* position of the child
    timeout,         \* get_dkb_redeem_token's parameter
    rounds,          \* UI-interaction rounds started
    activate_events, \* number of buffered captcha/quote responses
    redeem_events,   \* bodies of the buffered captcha/redeem responses
    retries,         \* get_redeem_response: loop counter
    observed,        \* len(redeem_events) as read by the last loop check
    waited,          \* number of one-second sleeps of the wait loop
    first_at,        \* value of waited when the first redeem event came
    raised,          \* the steps of the session that raised an exception
    res,             \* value returned by get_redeem_response
    token,           \* value returned by get_dkb_redeem_token
    child_stdout,    \* structured results the child printed
    exit_code,       \* the child's exit code
    elapsed          \* seconds the child has slept (negative: the run is not timed)

capVars == <<max_retries, attempt, result, captcha_token, launched, active, cooldowns,
             outcomes>>
pollVars == <<cnt, mfa_completed, response, requests, sleeps, transients, notices,
             diag, noise>>
fetchVars == <<account_id, account_dic, targets, skipped>>
loginVars == <<posted, status_code>>
pvars == <<pc, capVars, loginVars, pollVars, fetchVars, ret, stdout>>
cvars == <<cpc, timeout, rounds, activate_events, redeem_events, retries, observed,
           waited, first_at, raised, res, token, child_stdout, exit_code, elapsed>>
vars == <<pvars, cvars>>

-----------------------------------------------------------------------------
\* Bounds of the model

\* get_captcha_token is explored for max_retries in 0..MaxRetriesBound
MaxRetriesBound == 3
\* at most MaxEvents responses of each kind are buffered in a session
MaxEvents == 2
\* get_dkb_redeem_token is explored for timeout in 0..MaxTimeoutBound and 400
MaxTimeoutBound == 3

-----------------------------------------------------------------------------
\* Program constants

\* patched_app_finalize: max_iterations = 24
max_iterations == 24
\* patched_app_finalize: time.sleep(5)
intervalSeconds == 5

None == "None"

\* Redeem tokens the captcha provider may hand out (non-empty strings)
Tokens == {"abc123", "tok2"}

-----------------------------------------------------------------------------
\* Results of fetch_transactions (json.dumps of a dict with 'success')

Failure(msg) == [success |-> FALSE, error |-> msg]
Success == [success |-> TRUE, error |-> ""]

-----------------------------------------------------------------------------
\* What subprocess.run can give for one child: the 450 s limit expires
\* (TimeoutExpired), the launch itself fails (any other exception), or the
\* child exits with a return code and some text on its standard output.
\* The text is one of the two payloads the child's main block prints, or
\* text json.loads cannot parse (nothing at all, or a payload preceded by
\* other output).
ChildStdout ==
    {[parsable |-> TRUE, success |-> TRUE, token |-> t] : t \in Tokens}
    \cup {[parsable |-> TRUE, success |-> FALSE, token |-> None]}
    \cup {[parsable |-> FALSE, success |-> FALSE, token |-> None]}

ChildResults ==
    {[kind |-> "timeout", returncode |-> -1, out |-> [parsable |-> FALSE, success |-> FALSE, token |-> None]],
     [kind |-> "error", returncode |-> -1, out |-> [parsable |-> FALSE, success |-> FALSE, token |-> None]]}
    \cup {[kind |-> "exit", returncode |-> rc, out |-> o] : rc \in {0, 1}, o \in ChildStdout}

NoResult == [kind |-> "none", returncode |-> -1, out |-> [parsable |-> FALSE, success |-> FALSE, token |-> None]]

\* the return code is not looked at
AttemptSucceededAnyCode(r) ==
    /\ r.kind = "exit"
    /\ r.out.parsable
    /\ r.out.success

\* lines 41-43: the attempt yields a token
AttemptSucceeded(r) ==
    /\ r.kind = "exit"
    /\ r.returncode = 0
    /\ r.out.parsable
    /\ r.out.success

\* how the attempt ended: the 450 s limit expired (line 50), the child
\* exited with code 0 and a parsed payload with success = true, or anything
\* else (recorded for the properties; the code's own test is AttemptSucceeded)
AttemptOutcome(r) ==
    IF r.kind = "timeout" THEN "Timeout"
    ELSE IF r.kind = "exit" /\ r.returncode = 0 /\ r.out.parsable /\ r.out.success
    THEN "Success"
    ELSE "Failure"

-----------------------------------------------------------------------------
\* get_captcha_token

\* a range one too long: range(1, max_retries + 2)
InRangeOneMore(a, m) == a + 1 < m + 2

\* line 28: range(1, max_retries + 1) has a value after `a`
InRange(a, m) == a + 1 < m + 1

\* line 28: for attempt in range(1, max_retries + 1); lines 60-61 when the
\* range is exhausted
ForAttempt ==
    /\ pc = "cap_for"
    /\ IF InRange(attempt, max_retries)
       THEN /\ attempt' = attempt + 1
            /\ pc' = "cap_run"
            /\ UNCHANGED captcha_token
       ELSE /\ captcha_token' = None
            /\ pc' = "ft_check"
            /\ UNCHANGED attempt
    /\ UNCHANGED <<max_retries, result, launched, active, cooldowns, outcomes,
                   loginVars, pollVars, fetchVars, ret, stdout>>
    /\ UNCHANGED cvars

\* lines 34-39: subprocess.run(..., timeout=450) starts the child, or the
\* start itself raises (line 52)
SubprocessRun ==
    /\ pc = "cap_run"
    /\ launched' = launched + 1
    /\ \/ /\ active' = active + 1
          /\ pc' = "cap_wait"
          /\ UNCHANGED result
       \/ /\ \E r \in ChildResults : r.kind = "error" /\ result' = r
          /\ pc' = "cap_parse"
          /\ UNCHANGED active
    /\ UNCHANGED <<max_retries, attempt, captcha_token, cooldowns, outcomes,
                   loginVars, pollVars, fetchVars, ret, stdout>>
    /\ UNCHANGED cvars

\* the child is left running when the limit expires
SubprocessReturnNoKill ==
    /\ pc = "cap_wait"
    /\ \E r \in ChildResults :
          /\ result' = r
          /\ active' = IF r.kind = "timeout" THEN active ELSE active - 1
    /\ pc' = "cap_parse"
    /\ UNCHANGED <<max_retries, attempt, captcha_token, launched, cooldowns, outcomes,
                   loginVars, pollVars, fetchVars, ret, stdout>>
    /\ UNCHANGED cvars

\* lines 34-39: subprocess.run returns or raises once the child is gone: the
\* child exited, or the 450 s limit expired and run() killed and reaped it
\* before raising TimeoutExpired, as it does before any other exception
SubprocessReturn ==
    /\ pc = "cap_wait"
    /\ \E r \in ChildResults : result' = r
    /\ active' = active - 1
    /\ pc' = "cap_parse"
    /\ UNCHANGED <<max_retries, attempt, captcha_token, launched, cooldowns, outcomes,
                   loginVars, pollVars, fetchVars, ret, stdout>>
    /\ UNCHANGED cvars

\* lines 41-53: return the token, or report the failed attempt
ParseResult ==
    /\ pc = "cap_parse"
    /\ outcomes' = Append(outcomes, AttemptOutcome(result))
    /\ IF AttemptSucceeded(result)
       THEN /\ captcha_token' = result.out.token
            /\ pc' = "ft_check"
       ELSE /\ pc' = "cap_cooldown"
            /\ UNCHANGED captcha_token
    /\ UNCHANGED <<max_retries, attempt, result, launched, active, cooldowns,
                   loginVars, pollVars, fetchVars, ret, stdout>>
    /\ UNCHANGED cvars

\* the sleep also follows the last attempt
RetryFollowsAlways(a, m) == a <= m

\* line 55: if attempt < max_retries
RetryFollows(a, m) == a < m

\* lines 55-58: sleep 5 seconds when another attempt follows
Cooldown ==
    /\ pc = "cap_cooldown"
    /\ cooldowns' = IF RetryFollows(attempt, max_retries) THEN cooldowns + 1 ELSE cooldowns
    /\ pc' = "cap_for"
    /\ UNCHANGED <<max_retries, attempt, result, captcha_token, launched, active,
                   outcomes, loginVars, pollVars, fetchVars, ret, stdout>>
    /\ UNCHANGED cvars


-----------------------------------------------------------------------------
\* fetch_transactions, up to the login

NoReturn == [success |-> FALSE, error |-> "<no value returned>"]

\* the error of the result names how the last attempt ended
CheckTokenReportsOutcome ==
    /\ pc = "ft_check"
    /\ IF captcha_token = None
       THEN /\ ret' = Failure(IF outcomes = <<>> THEN "Failed to get captcha token"
                                                ELSE outcomes[Len(outcomes)])
            /\ pc' = "main_print"
       ELSE /\ pc' = "login"
            /\ UNCHANGED ret
    /\ UNCHANGED <<capVars, loginVars, pollVars, fetchVars, stdout>>
    /\ UNCHANGED cvars

\* the login is tried whatever get_captcha_token returned
CheckTokenNoGuard ==
    /\ pc = "ft_check"
    /\ pc' = "login"
    /\ UNCHANGED ret
    /\ UNCHANGED <<capVars, loginVars, pollVars, fetchVars, stdout>>
    /\ UNCHANGED cvars

\* lines 191-199: no token, no login; otherwise patch_dkb_authentication
\* binds the token into the login request
CheckToken ==
    /\ pc = "ft_check"
    /\ IF captcha_token = None
       THEN /\ ret' = Failure("Failed to get captcha token")
            /\ pc' = "main_print"
       ELSE /\ pc' = "login"
            /\ UNCHANGED ret
    /\ UNCHANGED <<capVars, loginVars, pollVars, fetchVars, stdout>>
    /\ UNCHANGED cvars

\* status codes the token endpoint may answer with
LoginStatus == {200, 401, 500}

\* the exception is not caught and the request is sent again
TokenGetRetries ==
    /\ pc = "login"
    /\ posted' = Append(posted, captcha_token)
    /\ \E sc \in LoginStatus :
         /\ status_code' = sc
         /\ pc' = IF sc = 200 THEN "mfa_setup" ELSE "login"
    /\ UNCHANGED <<capVars, pollVars, fetchVars, ret, stdout>>
    /\ UNCHANGED cvars

\* the exception leaves fetch_transactions
TokenGetUncaught ==
    /\ pc = "login"
    /\ posted' = Append(posted, captcha_token)
    /\ \E sc \in LoginStatus :
         /\ status_code' = sc
         /\ pc' = IF sc = 200 THEN "mfa_setup" ELSE "crashed"
    /\ UNCHANGED <<capVars, pollVars, fetchVars, ret, stdout>>
    /\ UNCHANGED cvars

\* lines 75-94 patched_token_get (called by DKBRobo's login, line 203): one
\* POST carrying the captcha token; a status other than 200 raises
\* DKBRoboError, which the handler of lines 294-298 turns into the result
TokenGet ==
    /\ pc = "login"
    /\ posted' = Append(posted, captcha_token)
    /\ \E sc \in LoginStatus :
         /\ status_code' = sc
         /\ IF sc = 200
            THEN /\ pc' = "mfa_setup"
                 /\ UNCHANGED ret
            ELSE /\ ret' = Failure("Login failed: 1st factor authentication failed")
                 /\ pc' = "main_print"
    /\ UNCHANGED <<capVars, pollVars, fetchVars, stdout>>
    /\ UNCHANGED cvars

\* the notices go to the primary output, as the library's own print does
PrintFileStdout == "stdout"

\* lines 113, 115, 128, 145, 153: print(..., file=sys.stderr)
PrintFile == "stderr"

\* print of the notices `kinds` by the poller
Notify(kinds) ==
    IF PrintFile = "stderr"
    THEN diag' = diag \cup kinds /\ UNCHANGED noise
    ELSE noise' = noise + Cardinality(kinds) /\ UNCHANGED diag

\* line 203: between the login request and finalize the library selects the
\* device and creates the challenge, which may raise (lines 294-298);
\* otherwise it calls the patched finalize (lines 122-128)
MfaSetup ==
    /\ pc = "mfa_setup"
    /\ \/ /\ ret' = Failure("Login failed: no challenge")
          /\ pc' = "main_print"
          /\ UNCHANGED <<diag, noise>>
       \/ /\ pc' = "poll_loop"
          /\ Notify({"prompt", "waiting"})
          /\ UNCHANGED ret
    /\ UNCHANGED <<capVars, loginVars, cnt, mfa_completed, response, requests, sleeps,
                   transients, notices, fetchVars, stdout>>
    /\ UNCHANGED cvars

-----------------------------------------------------------------------------
\* patched_app_finalize

\* What a status request can give: a status other than 200, a 200 whose
\* payload lacks data.attributes.verificationStatus, or a well-formed payload
\* for which self._check (line 143) returns True, returns False or raises.
StatusResponses ==
    {[status_code |-> 500, wellformed |-> FALSE, check |-> "none"],
     [status_code |-> 200, wellformed |-> FALSE, check |-> "none"],
     [status_code |-> 200, wellformed |-> TRUE, check |-> "completed"],
     [status_code |-> 200, wellformed |-> TRUE, check |-> "pending"],
     [status_code |-> 200, wellformed |-> TRUE, check |-> "raises"]}

NoResponse == [status_code |-> 0, wellformed |-> FALSE, check |-> "none"]

\* lines 135-141: the payload is examined
WellFormed(r) == r.status_code = 200 /\ r.wellformed

\* line 130: while cnt <= max_iterations
LoopCondition(c) == c <= max_iterations

\* lines 130-134: one status request, counted
PollRequest ==
    /\ pc = "poll_loop"
    /\ LoopCondition(cnt)
    /\ \E r \in StatusResponses : response' = r
    /\ cnt' = cnt + 1
    /\ requests' = requests + 1
    /\ pc' = "poll_eval"
    /\ UNCHANGED <<capVars, loginVars, mfa_completed, sleeps, transients, notices,
                   diag, noise, fetchVars, ret, stdout>>
    /\ UNCHANGED cvars

\* line 143-146: approval ends the loop
BreaksOn(r) == WellFormed(r) /\ r.check = "completed"

\* the break of line 146 is missing
PollEvaluateNoBreak ==
    /\ pc = "poll_eval"
    /\ IF BreaksOn(response)
       THEN /\ mfa_completed' = TRUE
            /\ pc' = "poll_sleep"
            /\ Notify({"approved"})
            /\ UNCHANGED <<ret, transients>>
       ELSE IF WellFormed(response) /\ response.check = "raises"
       THEN /\ ret' = Failure("2fa canceled by user")
            /\ pc' = "main_print"
            /\ UNCHANGED <<mfa_completed, transients, diag, noise>>
       ELSE /\ transients' = (transients \/ ~WellFormed(response))
            /\ pc' = "poll_sleep"
            /\ UNCHANGED <<mfa_completed, ret, diag, noise>>
    /\ UNCHANGED <<capVars, loginVars, cnt, response, requests, sleeps, notices,
                   fetchVars, stdout>>
    /\ UNCHANGED cvars

\* a failed or malformed status response ends the login with an error
PollEvaluateFailsOnError ==
    /\ pc = "poll_eval"
    /\ IF BreaksOn(response)
       THEN /\ mfa_completed' = TRUE
            /\ pc' = "poll_return"
            /\ Notify({"approved"})
            /\ UNCHANGED <<ret, transients>>
       ELSE IF ~WellFormed(response) \/ response.check = "raises"
       THEN /\ ret' = Failure("polling failed")
            /\ pc' = "main_print"
            /\ UNCHANGED <<mfa_completed, transients, diag, noise>>
       ELSE /\ pc' = "poll_sleep"
            /\ UNCHANGED <<mfa_completed, ret, transients, diag, noise>>
    /\ UNCHANGED <<capVars, loginVars, cnt, response, requests, sleeps, notices,
                   fetchVars, stdout>>
    /\ UNCHANGED cvars

\* the exception of _check is swallowed and polling goes on
PollEvaluateSwallows ==
    /\ pc = "poll_eval"
    /\ IF BreaksOn(response)
       THEN /\ mfa_completed' = TRUE
            /\ pc' = "poll_return"
            /\ Notify({"approved"})
            /\ UNCHANGED <<ret, transients>>
       ELSE /\ transients' = (transients \/ ~WellFormed(response))
            /\ pc' = "poll_sleep"
            /\ UNCHANGED <<mfa_completed, ret, diag, noise>>
    /\ UNCHANGED <<capVars, loginVars, cnt, response, requests, sleeps, notices,
                   fetchVars, stdout>>
    /\ UNCHANGED cvars

\* lines 135-150: approved (break), _check raises (lines 294-298), or keep
\* waiting
PollEvaluate ==
    /\ pc = "poll_eval"
    /\ IF BreaksOn(response)
       THEN /\ mfa_completed' = TRUE
            /\ pc' = "poll_return"
            /\ Notify({"approved"})
            /\ UNCHANGED <<ret, transients>>
       ELSE IF WellFormed(response) /\ response.check = "raises"
       THEN /\ ret' = Failure("2fa canceled by user")
            /\ pc' = "main_print"
            /\ UNCHANGED <<mfa_completed, transients, diag, noise>>
       ELSE /\ transients' = (transients \/ ~WellFormed(response))
            /\ pc' = "poll_sleep"
            /\ UNCHANGED <<mfa_completed, ret, diag, noise>>
    /\ UNCHANGED <<capVars, loginVars, cnt, response, requests, sleeps, notices,
                   fetchVars, stdout>>
    /\ UNCHANGED cvars

\* line 152: a progress notice is due
NoticeDue(c) == c % 4 = 0

\* lines 152-154: progress notice on stderr, then time.sleep(5)
PollSleep ==
    /\ pc = "poll_sleep"
    /\ IF NoticeDue(cnt)
       THEN /\ notices' = notices \cup {cnt}
            /\ Notify({"still"})
       ELSE UNCHANGED <<notices, diag, noise>>
    /\ sleeps' = sleeps + 1
    /\ pc' = "poll_loop"
    /\ UNCHANGED <<capVars, loginVars, cnt, mfa_completed, response, requests, transients,
                   fetchVars, ret, stdout>>
    /\ UNCHANGED cvars

\* line 130 false: the loop ends without approval
PollExhausted ==
    /\ pc = "poll_loop"
    /\ ~LoopCondition(cnt)
    /\ pc' = "poll_return"
    /\ UNCHANGED <<capVars, loginVars, pollVars, fetchVars, ret, stdout>>
    /\ UNCHANGED cvars

\* lines 156-157: finalize returns mfa_completed to the library's login
\* (line 203), which raises unless the approval completed, and may raise
\* while it opens the session
PollReturn ==
    /\ pc = "poll_return"
    /\ \/ /\ ret' = Failure("Login failed: mfa did not complete")
          /\ pc' = "main_print"
          /\ UNCHANGED fetchVars
       \/ /\ mfa_completed
          /\ \E ids \in SUBSET {"acc1", "acc2"} : account_dic' = ids
          /\ pc' = "with_body"
          /\ UNCHANGED <<ret, account_id, targets, skipped>>
    /\ UNCHANGED <<capVars, loginVars, pollVars, stdout>>
    /\ UNCHANGED cvars

-----------------------------------------------------------------------------
\* fetch_transactions, inside the session, and main

\* lines 204-239: list the accounts and pick the targets; a requested
\* account that is absent gives a failure result (lines 231-235); anything
\* raised here reaches lines 294-298
ListAccounts ==
    /\ pc = "with_body"
    /\ \/ /\ ret' = Failure("exception while listing accounts")
          /\ pc' = "main_print"
          /\ UNCHANGED targets
       \/ /\ account_id # None
          /\ account_id \notin account_dic
          /\ ret' = Failure("Account not found")
          /\ pc' = "ctx_exit"
          /\ UNCHANGED targets
       \/ /\ account_id # None
          /\ account_id \in account_dic
          /\ targets' = {account_id}
          /\ pc' = "fetching"
          /\ UNCHANGED ret
       \/ /\ account_id = None
          /\ targets' = account_dic
          /\ pc' = "fetching"
          /\ UNCHANGED ret
    /\ UNCHANGED <<capVars, loginVars, pollVars, account_id, account_dic, skipped, stdout>>
    /\ UNCHANGED cvars

\* lines 249-290: one account's transactions; an exception of
\* get_transactions or of the conversion is printed to stderr and the loop
\* continues (lines 288-290), so either way the account is done
FetchAccount ==
    /\ pc = "fetching"
    /\ \E idx \in targets, failed \in BOOLEAN :
         /\ targets' = targets \ {idx}
         /\ skipped' = IF failed THEN skipped \cup {idx} ELSE skipped
    /\ UNCHANGED <<pc, capVars, loginVars, pollVars, account_id, account_dic, ret, stdout>>
    /\ UNCHANGED cvars

\* line 292: all target accounts done
ReturnResult ==
    /\ pc = "fetching"
    /\ targets = {}
    /\ ret' = Success
    /\ pc' = "ctx_exit"
    /\ UNCHANGED <<capVars, loginVars, pollVars, fetchVars, stdout>>
    /\ UNCHANGED cvars

\* line 203: leaving the with block runs the session's __exit__ (logout);
\* if that raises, lines 294-298 replace the value being returned
ContextExit ==
    /\ pc = "ctx_exit"
    /\ \/ UNCHANGED ret
       \/ ret' = Failure("exception while closing the session")
    /\ pc' = "main_print"
    /\ UNCHANGED <<capVars, loginVars, pollVars, fetchVars, stdout>>
    /\ UNCHANGED cvars

\* lines 309-316: main prints what fetch_transactions returned
MainPrint ==
    /\ pc = "main_print"
    /\ stdout' = Append(stdout, ret)
    /\ pc' = "done"
    /\ UNCHANGED <<capVars, loginVars, pollVars, fetchVars, ret>>
    /\ UNCHANGED cvars

-----------------------------------------------------------------------------
\* The child process (get_captcha_token.py)

\* line 83: for _ in range(50)
ui_rounds == 50
\* line 132: get_dkb_redeem_token(timeout=400, headless=True)
timeout_default == 400

\* Python's False, as returned on error (lines 63, 66, 127)
False == "<False>"

\* Bodies of captcha/redeem responses: JSON holding data.redeem_token (a
\* token, or an empty string), or anything else
Malformed == [ok |-> FALSE, redeem_token |-> ""]
Bodies == {[ok |-> TRUE, redeem_token |-> t] : t \in Tokens \cup {""}} \cup {Malformed}

Last(q) == q[Len(q)]

\* time.sleep(n), asyncio.sleep(n): n more seconds have passed (counted in
\* the runs that are timed)
Slept(n) == IF elapsed < 0 THEN elapsed ELSE elapsed + n

\* the handler of lines 33-39 runs while the browser is driven and while
\* the wait loop is suspended in asyncio.sleep
Listening == cpc \in {"round_check", "round_sleep", "round_frame", "round_click", "wait_sleep"}

\* lines 34-36: a captcha/redeem response is buffered
RedeemResponse ==
    /\ Listening
    /\ Len(redeem_events) < MaxEvents
    /\ \E b \in Bodies : redeem_events' = Append(redeem_events, b)
    /\ first_at' = IF redeem_events # <<>> THEN first_at
                   ELSE IF cpc = "wait_sleep" THEN waited + 1 ELSE 0
    /\ UNCHANGED <<cpc, timeout, rounds, activate_events, retries, observed, waited,
                   raised, res, token, child_stdout, exit_code, elapsed>>
    /\ UNCHANGED pvars

\* lines 37-39: a captcha/quote response is buffered
QuoteResponse ==
    /\ Listening
    /\ activate_events < MaxEvents
    /\ activate_events' = activate_events + 1
    /\ UNCHANGED <<cpc, timeout, rounds, redeem_events, retries, observed, waited,
                   first_at, raised, res, token, child_stdout, exit_code, elapsed>>
    /\ UNCHANGED pvars

\* lines 69-81: start the browser, install the listener, open the login
\* page; an exception is caught at lines 125-127
OpenSession ==
    /\ cpc = "start"
    /\ \/ /\ cpc' = "round_check"
          /\ UNCHANGED <<token, raised>>
       \/ /\ token' = False
          /\ raised' = raised \cup {"open"}
          /\ cpc' = "main"
    /\ UNCHANGED <<timeout, rounds, activate_events, redeem_events, retries, observed,
                   waited, first_at, res, child_stdout, exit_code, elapsed>>
    /\ UNCHANGED pvars

\* lines 83-87: next round, unless the range is exhausted or the captcha
\* was activated (the loop variable is not read after the loop: rounds is
\* cleared when the loop is left)
RoundCheck ==
    /\ cpc = "round_check"
    /\ IF rounds = ui_rounds \/ activate_events > 0
       THEN /\ cpc' = "wait_check"
            /\ rounds' = 0
       ELSE /\ rounds' = rounds + 1
            /\ cpc' = "round_sleep"
    /\ UNCHANGED <<timeout, activate_events, redeem_events, retries, observed, waited,
                   first_at, raised, res, token, child_stdout, exit_code, elapsed>>
    /\ UNCHANGED pvars

\* lines 89-101: sleep one second, dismiss the cookie banner if it is there
RoundSleep ==
    /\ cpc = "round_sleep"
    /\ elapsed' = Slept(1)
    /\ cpc' = "round_frame"
    /\ UNCHANGED <<timeout, rounds, activate_events, redeem_events, retries, observed,
                   waited, first_at, raised, res, token, child_stdout, exit_code>>
    /\ UNCHANGED pvars

\* lines 104-111: switch to the captcha frame; if it is absent reload the
\* page and start the next round; a failing reload is caught at lines 125-127
RoundFrame ==
    /\ cpc = "round_frame"
    /\ \/ /\ cpc' = "round_click"
          /\ UNCHANGED <<token, raised, elapsed>>
       \/ /\ cpc' = "round_check"
          /\ elapsed' = Slept(1)
          /\ UNCHANGED <<token, raised>>
       \/ /\ token' = False
          /\ raised' = raised \cup {"reload"}
          /\ cpc' = "main"
          /\ UNCHANGED elapsed
    /\ UNCHANGED <<timeout, rounds, activate_events, redeem_events, retries, observed,
                   waited, first_at, res, child_stdout, exit_code>>
    /\ UNCHANGED pvars

\* lines 113-120: click the checkbox (break), or try again in the next round
RoundClick ==
    /\ cpc = "round_click"
    /\ \/ /\ cpc' = "wait_check"
          /\ rounds' = 0
       \/ /\ cpc' = "round_check"
          /\ UNCHANGED rounds
    /\ UNCHANGED <<timeout, activate_events, redeem_events, retries, observed,
                   waited, first_at, raised, res, token, child_stdout, exit_code, elapsed>>
    /\ UNCHANGED pvars

\* the buffer is not looked at: the whole budget is waited out
KeepWaitingBudgetOnly(n, r, t) == r <= t

\* the budget is one sleep short
KeepWaitingOneShort(n, r, t) == n = 0 /\ r < t

\* line 47: keep waiting
KeepWaiting(n, r, t) == n = 0 /\ r <= t

\* lines 45-53 and 64-66: count the check; sleep, or leave the loop and
\* either go on to read the token or return False
WaitCheck ==
    /\ cpc = "wait_check"
    /\ retries' = retries + 1
    /\ observed' = Len(redeem_events)
    /\ IF KeepWaiting(Len(redeem_events), retries', timeout)
       THEN /\ cpc' = "wait_sleep"
            /\ UNCHANGED res
       ELSE IF Len(redeem_events) > 0
       THEN /\ cpc' = "extract"
            /\ UNCHANGED res
       ELSE /\ res' = False
            /\ cpc' = "session_exit"
    /\ UNCHANGED <<timeout, rounds, activate_events, redeem_events, waited, first_at, raised,
                   token, child_stdout, exit_code, elapsed>>
    /\ UNCHANGED pvars

\* line 49: await asyncio.sleep(1)
WaitSleep ==
    /\ cpc = "wait_sleep"
    /\ waited' = waited + 1
    /\ elapsed' = Slept(1)
    /\ cpc' = "wait_check"
    /\ UNCHANGED <<timeout, rounds, activate_events, redeem_events, retries, observed,
                   first_at, raised, res, token, child_stdout, exit_code>>
    /\ UNCHANGED pvars

\* the first event is taken: redeem_events[0]
ChosenFirst(events) == events[1]

\* line 58: redeem_events[-1]
Chosen(events) == Last(events)

\* line 60: json.loads(res[0])["data"]["redeem_token"], False when the body
\* does not hold it (lines 61-63)
RedeemToken(body) == IF body.ok THEN body.redeem_token ELSE False

\* lines 56-63: fetch the body of the chosen event and read
\* data.redeem_token; an exception of the fetch gives False as well
Extract ==
    /\ cpc = "extract"
    /\ \/ /\ res' = RedeemToken(Chosen(redeem_events))
          /\ UNCHANGED raised
       \/ /\ res' = False
          /\ raised' = raised \cup {"send"}
    /\ cpc' = "session_exit"
    /\ UNCHANGED <<timeout, rounds, activate_events, redeem_events, retries, observed,
                   waited, first_at, token, child_stdout, exit_code, elapsed>>
    /\ UNCHANGED pvars

\* lines 123-127: return the value; if closing the browser session raises,
\* the handler returns False instead
SessionExit ==
    /\ cpc = "session_exit"
    /\ \/ /\ token' = res
          /\ UNCHANGED raised
       \/ /\ token' = False
          /\ raised' = raised \cup {"close"}
    /\ cpc' = "main"
    /\ UNCHANGED <<timeout, rounds, activate_events, redeem_events, retries, observed,
                   waited, first_at, res, child_stdout, exit_code, elapsed>>
    /\ UNCHANGED pvars

\* only False is taken as failure: if token is not False
TruthyNotFalse(v) == v # False

\* line 134: if token
Truthy(v) == v # False /\ v # ""

\* lines 136-139 and 142-145: the two payloads
TokenPayload(t) == [success |-> TRUE, token |-> t, error |-> ""]
ErrorPayload == [success |-> FALSE, token |-> None, error |-> "Failed to get captcha token"]

\* lines 132-146: print the result and exit
MainBlock ==
    /\ cpc = "main"
    /\ IF Truthy(token)
       THEN /\ child_stdout' = Append(child_stdout, TokenPayload(token))
            /\ exit_code' = 0
       ELSE /\ child_stdout' = Append(child_stdout, ErrorPayload)
            /\ exit_code' = 1
    /\ cpc' = "exited"
    /\ UNCHANGED <<timeout, rounds, activate_events, redeem_events, retries, observed,
                   waited, first_at, raised, res, token, elapsed>>
    /\ UNCHANGED pvars

-----------------------------------------------------------------------------
\* The limit the parent sets on the child

\* dkb_fetch.py line 38: timeout=450
wall_clock_timeout == 450

\* dkb_fetch.py lines 34-39 and 50: the child has been running for the
\* limit (it has slept that long, at least) and has not exited:
\* subprocess.run kills it
Kill ==
    /\ elapsed >= wall_clock_timeout
    /\ cpc \notin {"exited", "killed"}
    /\ cpc' = "killed"
    /\ UNCHANGED <<timeout, rounds, activate_events, redeem_events, retries, observed,
                   waited, first_at, raised, res, token, child_stdout, exit_code, elapsed>>
    /\ UNCHANGED pvars

-----------------------------------------------------------------------------
\* The parent before get_captcha_token's loop, called with m and account a
ParentStart(m, a) ==
    /\ pc = "cap_for"
    /\ max_retries = m
    /\ attempt = 0
    /\ result = NoResult
    /\ captcha_token = None
    /\ launched = 0
    /\ active = 0
    /\ cooldowns = 0
    /\ outcomes = <<>>
    /\ posted = <<>>
    /\ status_code = 0
    /\ cnt = 0
    /\ mfa_completed = FALSE
    /\ response = NoResponse
    /\ requests = 0
    /\ sleeps = 0
    /\ transients = FALSE
    /\ notices = {}
    /\ diag = {}
    /\ noise = 0
    /\ account_id = a
    /\ account_dic = {}
    /\ targets = {}
    /\ skipped = {}
    /\ ret = NoReturn
    /\ stdout = <<>>

\* The child at process start, get_dkb_redeem_token called with timeout t
ChildStart(t) ==
    /\ cpc = "start"
    /\ timeout = t
    /\ rounds = 0
    /\ activate_events = 0
    /\ redeem_events = <<>>
    /\ retries = 0
    /\ observed = 0
    /\ waited = 0
    /\ first_at = 0
    /\ raised = {}
    /\ res = False
    /\ token = False
    /\ child_stdout = <<>>
    /\ exit_code = -1
    /\ elapsed = -1

Init ==
    /\ \E m \in 0..MaxRetriesBound, a \in {None, "acc1"} : ParentStart(m, a)
    /\ ChildStart(timeout_default)

Next ==
    \/ ForAttempt
    \/ SubprocessRun
    \/ SubprocessReturn
    \/ ParseResult
    \/ Cooldown
    \/ CheckToken
    \/ TokenGet
    \/ MfaSetup
    \/ PollRequest
    \/ PollEvaluate
    \/ PollSleep
    \/ PollExhausted
    \/ PollReturn
    \/ ListAccounts
    \/ FetchAccount
    \/ ReturnResult
    \/ ContextExit
    \/ MainPrint

Spec == Init /\ [][Next]_vars

\* every step of the parent is eventually taken: the interpreter runs the
\* program on, and subprocess.run returns at the latest when its limit expires
FairSpec == Spec /\ WF_vars(Next)

ChildInit ==
    /\ ParentStart(3, None)
    /\ \E t \in (0..MaxTimeoutBound) \cup {timeout_default} : ChildStart(t)

ChildNext ==
    \/ RedeemResponse
    \/ QuoteResponse
    \/ OpenSession
    \/ RoundCheck
    \/ RoundSleep
    \/ RoundFrame
    \/ RoundClick
    \/ WaitCheck
    \/ WaitSleep
    \/ Extract
    \/ SessionExit
    \/ MainBlock

ChildSpec == ChildInit /\ [][ChildNext]_vars

\* One run of the child as the parent starts it, with its sleeps timed
\* against the parent's limit, in an attempt where no captcha/redeem
\* response comes
TimedInit ==
    /\ ParentStart(3, None)
    /\ cpc = "start"
    /\ timeout = timeout_default
    /\ rounds = 0
    /\ activate_events = 0
    /\ redeem_events = <<>>
    /\ retries = 0
    /\ observed = 0
    /\ waited = 0
    /\ first_at = 0
    /\ raised = {}
    /\ res = False
    /\ token = False
    /\ child_stdout = <<>>
    /\ exit_code = -1
    /\ elapsed = 0

TimedNext ==
    \/ QuoteResponse
    \/ OpenSession
    \/ RoundCheck
    \/ RoundSleep
    \/ RoundFrame
    \/ RoundClick
    \/ WaitCheck
    \/ WaitSleep
    \/ SessionExit
    \/ MainBlock
    \/ Kill

TimedSpec == TimedInit /\ [][TimedNext]_vars

-----------------------------------------------------------------------------
\* Properties of get_captcha_token (checked under Spec)

\* get_captcha_token has returned
CaptchaReturned == pc \notin {"cap_for", "cap_run", "cap_wait", "cap_parse", "cap_cooldown"}

NoAttemptSucceeded == \A i \in DOMAIN outcomes : outcomes[i] # "Success"

\* C1: for every max_retries >= 1, if every attempt fails (nonzero exit,
\* success:false, unparsable output, or the wall-clock timeout),
\* get_captcha_token launches exactly max_retries child processes, never one
\* more, and returns no token.
C1_ExactlyMaxRetriesLaunches ==
    /\ launched <= max_retries
    /\ (max_retries >= 1 /\ CaptchaReturned /\ NoAttemptSucceeded)
         => (launched = max_retries /\ Len(outcomes) = max_retries /\ captcha_token = None)

\* C1 witness: three attempts, ended by a timeout, a failure and a failure,
\* and the function has returned
C1_Witness ==
    /\ CaptchaReturned
    /\ max_retries = 3
    /\ launched = 3
    /\ outcomes = <<"Timeout", "Failure", "Failure">>
    /\ captcha_token = None

\* C2: get_captcha_token returns a token if and only if some attempt
\* succeeded (exit code 0 and parsed output with success = true); the token
\* is that of the first such attempt, and no attempt is launched after it.
C2_TokenIffAttemptSucceeded ==
    /\ \A i \in DOMAIN outcomes : outcomes[i] = "Success" => i = Len(outcomes)
    /\ CaptchaReturned =>
         /\ (captcha_token # None) <=> ~NoAttemptSucceeded
         /\ ~NoAttemptSucceeded =>
              /\ captcha_token = result.out.token
              /\ captcha_token \in Tokens
              /\ launched = Len(outcomes)

\* C2 witness: the second attempt succeeds after a failed first one and its
\* token is returned
C2_Witness ==
    /\ CaptchaReturned
    /\ outcomes = <<"Failure", "Success">>
    /\ launched = 2
    /\ max_retries = 3
    /\ captcha_token = "tok2"

-----------------------------------------------------------------------------
\* Properties of patched_app_finalize (checked under Spec)

\* the loop ended without approval and without an exception
TimedOut == pc = "poll_return" /\ ~mfa_completed

\* the last status response carried a success status
Approving(r) == r.status_code = 200 /\ r.wellformed /\ r.check = "completed"

\* C3: if no status poll ever yields a terminal status, the poller returns
\* TimedOut after exactly max_iterations (24) status requests, never before
\* the 24th and without issuing a 25th.
C3_TimedOutAfterMaxIterations ==
    /\ requests <= max_iterations
    /\ TimedOut => requests = max_iterations

\* C4: on the timeout path the poller has slept 24 times, 24 x 5 = 120
\* seconds in all.
C4_TimedOutAfter120Seconds ==
    TimedOut => (sleeps = max_iterations /\ sleeps * intervalSeconds = 120)

\* C5: the poller returns Approved at the first iteration whose response is
\* a 200 with a well-formed payload carrying a success status, whatever
\* transient errors came before, and it issues no status request and no
\* sleep after that iteration.
C5_ApprovedAtFirstSuccess ==
    /\ mfa_completed => Approving(response)
    /\ (Approving(response) /\ pc # "poll_eval") =>
         /\ mfa_completed
         /\ pc \notin {"poll_loop", "poll_sleep"}
         /\ requests = cnt
         /\ sleeps = requests - 1

\* C5 witness: approval seen at the 10th request after transient errors;
\* finalize has returned after 10 requests and 9 sleeps
C5_Witness ==
    /\ pc = "with_body"
    /\ mfa_completed
    /\ transients
    /\ requests = 10
    /\ sleeps = 9

-----------------------------------------------------------------------------
\* Properties of the child process (checked under ChildSpec)

\* the wait loop of get_redeem_response has been left
WaitLeft == cpc \in {"extract", "session_exit", "main", "exited"} /\ retries > 0

\* get_dkb_redeem_token has returned
ChildReturned == cpc \in {"main", "exited"}

\* C6: if a redemption event is recorded before the wait budget is
\* exhausted, the wait loop exits at its next check (it never sleeps in an
\* iteration where it saw the buffer non-empty), without waiting out the
\* rest of the budget, and get_dkb_redeem_token returns the token extracted
\* from the event body.
C6_FastPathExit ==
    /\ cpc = "wait_sleep" => observed = 0
    /\ (WaitLeft /\ redeem_events # <<>>) =>
         /\ observed > 0
         /\ waited = first_at
         /\ waited <= timeout
         /\ retries = waited + 1
    /\ (ChildReturned /\ retries > 0 /\ redeem_events # <<>> /\ raised = {}) =>
         token = RedeemToken(Last(redeem_events))

\* C6 witness: with a budget of 400 the event with token "abc123" is there
\* at the third check; the child returns "abc123" after the 2 sleeps before it
C6_Witness ==
    /\ cpc = "exited"
    /\ timeout = timeout_default
    /\ redeem_events = <<[ok |-> TRUE, redeem_token |-> "abc123"]>>
    /\ retries = 3
    /\ waited = 2
    /\ token = "abc123"
    /\ child_stdout = <<TokenPayload("abc123")>>

\* C7: if no redemption event is ever recorded, the wait loop returns
\* failure only after timeout one-second sleeps, never after fewer.
C7_NoPrematureTimeout ==
    (WaitLeft /\ redeem_events = <<>>) =>
        /\ cpc # "extract"
        /\ res = False
        /\ waited = timeout
        /\ retries = timeout + 1

\* C7 witness: no event, budget 400: failure after 400 sleeps
C7_Witness ==
    /\ cpc = "exited"
    /\ timeout = timeout_default
    /\ redeem_events = <<>>
    /\ waited = timeout_default
    /\ token = False
    /\ exit_code = 1

\* a well-formed result of the child: success with a non-empty token and no
\* error, or failure with a non-empty error and no token
WellFormedChildResult(o) ==
    IF o.success
    THEN o.token \notin {"", None, False} /\ o.error = ""
    ELSE o.error # "" /\ o.token = None

\* C8: on every path through the child it writes exactly one structured
\* result to its standard output, success = true with a non-empty token or
\* success = false with a non-empty error, and exits with code 0 exactly
\* when success = true.
C8_ChildWritesOneResult ==
    /\ cpc # "exited" => (child_stdout = <<>> /\ exit_code = -1)
    /\ cpc = "exited" =>
         /\ Len(child_stdout) = 1
         /\ WellFormedChildResult(child_stdout[1])
         /\ exit_code \in {0, 1}
         /\ (exit_code = 0) <=> child_stdout[1].success
         /\ child_stdout[1].success => child_stdout[1].token = token

\* C8 witness: the body held an empty redeem token; the child reports a
\* failure and exits with code 1
C8_Witness ==
    /\ cpc = "exited"
    /\ redeem_events # <<>>
    /\ raised = {}
    /\ token = ""
    /\ child_stdout = <<ErrorPayload>>
    /\ exit_code = 1

-----------------------------------------------------------------------------
\* Properties of fetch_transactions and main (checked under Spec)

\* a well-formed result of the parent: success without an error, or failure
\* with an error
WellFormedResult(o) ==
    IF o.success THEN o.error = "" ELSE o.error \notin {"", NoReturn.error}

\* C9: whatever the outcome of the run (no captcha token, login rejected,
\* approval rejected or timed out, account not found, exception while
\* fetching, success), the parent writes exactly one well-formed structured
\* result to its standard output, and no failure leaves fetch_transactions
\* as an uncaught exception.
C9_ParentWritesOneResult ==
    /\ pc # "done" => (stdout = <<>> /\ ENABLED Next)
    /\ pc = "done" =>
         /\ Len(stdout) = 1
         /\ WellFormedResult(stdout[1])
         /\ stdout[1] = ret
         /\ stdout[1].success => (mfa_completed /\ captcha_token # None /\ status_code = 200)

\* C9 witness: the fetch of one account raised; the run still ends with the
\* one success result
C9_Witness ==
    /\ pc = "done"
    /\ skipped = {"acc1"}
    /\ stdout = <<Success>>

\* C10: when the token endpoint answers the login with a status other than
\* 200, the login fails at once: no second login request, no further child
\* process for a new captcha token, no approval status poll, and the run
\* ends with a structured failure result.
C10_LoginRejectedIsFinal ==
    (status_code \notin {0, 200}) =>
        /\ pc \in {"main_print", "done"}
        /\ Len(posted) = 1
        /\ launched = Len(outcomes)
        /\ requests = 0
        /\ ~ret.success /\ WellFormedResult(ret)
        /\ pc = "done" => stdout = <<ret>>

\* C10 witness: the endpoint answered 401 and the run has ended with the
\* failure result
C10_Witness ==
    /\ pc = "done"
    /\ status_code = 401
    /\ posted = <<"abc123">>
    /\ stdout = <<Failure("Login failed: 1st factor authentication failed")>>

-----------------------------------------------------------------------------
\* Further properties of patched_app_finalize (checked under Spec)

\* the status request itself failed: a status other than 200, or a payload
\* without data.attributes.verificationStatus
Transient(r) == r.status_code # 0 /\ ~(r.status_code = 200 /\ r.wellformed)

Denied(r) == r.status_code = 200 /\ r.wellformed /\ r.check = "raises"

\* what the run returns when the poll budget ran out
TimedOutResult == Failure("Login failed: mfa did not complete")

InFinalize == pc \in {"poll_loop", "poll_eval", "poll_sleep", "poll_return"}

\* C13: a "still waiting" notice follows the k-th status request only if k
\* is a multiple of 4, and every notice of the poller (device prompt,
\* waiting, still waiting, approval received) goes to stderr: the poller
\* writes nothing to the primary output.
C13_NoticesOnStderrEveryFourth ==
    /\ \A k \in notices : k % 4 = 0 /\ k >= 1 /\ k <= requests
    /\ noise = 0
    /\ InFinalize => (stdout = <<>> /\ {"prompt", "waiting"} \subseteq diag)
    /\ ("still" \in diag) <=> (notices # {})
    /\ ("approved" \in diag) <=> mfa_completed

\* C13 witness: approval at the 10th request: notices after the 4th and the
\* 8th request, all four kinds of notice on stderr, nothing on stdout
C13_Witness ==
    /\ pc = "poll_return"
    /\ requests = 10
    /\ notices = {4, 8}
    /\ diag = {"prompt", "waiting", "still", "approved"}
    /\ noise = 0
    /\ stdout = <<>>

-----------------------------------------------------------------------------
\* Further properties of get_captcha_token (C14 under FairSpec, the others
\* under Spec)

\* C14: get_captcha_token always terminates: an attempt whose child never
\* exits is ended by the limit of subprocess.run and recorded as timed out,
\* and the function returns after at most max_retries attempts and
\* max_retries - 1 cooldowns.
C14_GetCaptchaTokenTerminates ==
    /\ [](/\ launched <= max_retries
          /\ Len(outcomes) <= launched
          /\ cooldowns <= (IF max_retries >= 1 THEN max_retries - 1 ELSE 0))
    /\ [](pc = "cap_wait" => <>(pc = "cap_parse" /\ active = 0))
    /\ <>CaptchaReturned

\* C14 witness: every one of three children hung until the limit expired;
\* the function has returned after 3 attempts and 2 cooldowns
C14_Witness ==
    /\ CaptchaReturned
    /\ max_retries = 3
    /\ outcomes = <<"Timeout", "Timeout", "Timeout">>
    /\ launched = 3
    /\ cooldowns = 2
    /\ active = 0

\* every attempt was made and none gave a token
Exhausted ==
    /\ CaptchaReturned
    /\ max_retries >= 1
    /\ Len(outcomes) = max_retries
    /\ NoAttemptSucceeded

\* what the caller of get_captcha_token learns about the last attempt
OverallOutcome ==
    IF captcha_token # None THEN "Success"
    ELSE IF ret = Failure("Timeout") THEN "Timeout"
    ELSE IF ret = Failure("Failure") THEN "Failure"
    ELSE "unknown"

\* C15 as claimed: when all max_retries attempts are exhausted, the overall
\* result is the outcome of the last attempt: it tells whether that attempt
\* ended in Failure or in Timeout.
C15_LastOutcomeReturned ==
    (Exhausted /\ pc \in {"main_print", "done"}) =>
        OverallOutcome = outcomes[Len(outcomes)]

\* C15 as amended: when all max_retries attempts are exhausted,
\* get_captcha_token returns None and the overall result is the one fixed
\* failure 'Failed to get captcha token', whether the last attempt ended in
\* Failure or in Timeout.
C15_ExhaustedGivesFixedFailure ==
    Exhausted =>
        /\ captcha_token = None
        /\ pc \in {"ft_check", "main_print", "done"}
        /\ pc \in {"main_print", "done"} => ret = Failure("Failed to get captcha token")
        /\ pc = "done" => stdout = <<Failure("Failed to get captcha token")>>
        /\ posted = <<>>

\* C15 witness: the last of three attempts timed out, and the result that
\* was printed is the fixed failure
C15_Witness ==
    /\ pc = "done"
    /\ Exhausted
    /\ outcomes = <<"Failure", "Failure", "Timeout">>
    /\ stdout = <<Failure("Failed to get captcha token")>>

\* C16: attempts are strictly sequential: at most one child process is
\* active at any moment, and an attempt (and the cooldown before it) starts
\* only after the one before has exited or was killed and its outcome was
\* recorded.
C16_AttemptsAreSequential ==
    /\ active \in {0, 1}
    /\ active = 1 => (pc = "cap_wait" /\ Len(outcomes) = launched - 1)
    /\ pc = "cap_run" => (active = 0 /\ Len(outcomes) = launched /\ launched = attempt - 1)
    /\ pc = "cap_cooldown" => (active = 0 /\ Len(outcomes) = launched /\ launched = attempt)
    /\ cooldowns <= Len(outcomes)

\* C16 witness: the second child is running, after the first was killed at
\* the limit and recorded as timed out, and one cooldown
C16_Witness ==
    /\ pc = "cap_wait"
    /\ active = 1
    /\ launched = 2
    /\ outcomes = <<"Timeout">>
    /\ cooldowns = 1

\* C19: a login request is sent only after get_captcha_token has returned a
\* token, and it carries exactly that token; when the acquisition failed,
\* no login request and no status poll is issued in the run.
C19_LoginOnlyWithToken ==
    /\ posted # <<>> =>
         /\ CaptchaReturned
         /\ captcha_token \in Tokens
         /\ \A i \in DOMAIN posted : posted[i] = captcha_token
    /\ (CaptchaReturned /\ captcha_token = None) =>
         /\ posted = <<>>
         /\ status_code = 0
         /\ requests = 0
         /\ pc \in {"ft_check", "main_print", "done"}

\* C19 witness: the second attempt gave the token tok2 and the login request
\* carrying it was sent
C19_Witness ==
    /\ outcomes = <<"Timeout", "Success">>
    /\ captcha_token = "tok2"
    /\ posted = <<"tok2">>
    /\ status_code = 200

-----------------------------------------------------------------------------
\* Further properties of the child (C17, C18 under ChildSpec, C20 under
\* TimedSpec)

\* the step reloads the page (line 109)
Reloads == cpc = "round_frame" /\ cpc' \in {"round_check", "main"}

\* the step clicks the checkbox (line 115)
Clicks == cpc = "round_click" /\ cpc' = "wait_check"

\* C17: in the round loop, once a captcha/quote response has been recorded
\* the loop is left: no reload of the page and no click on the checkbox is
\* made while activate_events is non-empty, at whatever point of the round
\* the response came.
C17_NoReloadOrClickOnceActivated ==
    [][(Reloads \/ Clicks) => activate_events = 0]_vars

\* the wait loop of get_redeem_response has been left
WaitLoopLeft == retries > 0 /\ cpc \in {"session_exit", "main", "exited"}

\* C18: when several captcha/redeem responses were recorded by the time the
\* wait loop is left, the token returned is the one read from the body of
\* the response recorded last, never from an earlier one.
C18_LastRedeemEventWins ==
    (WaitLoopLeft /\ Len(redeem_events) >= 2 /\ "send" \notin raised) =>
        /\ res = RedeemToken(redeem_events[Len(redeem_events)])
        /\ (cpc \in {"main", "exited"} /\ "close" \notin raised) => token = res
        /\ (cpc = "exited" /\ Truthy(token)) =>
              child_stdout = <<TokenPayload(redeem_events[Len(redeem_events)].redeem_token)>>

\* C18 witness: two responses were recorded, the first with abc123 and the
\* last with tok2; the child has printed tok2
C18_Witness ==
    /\ cpc = "exited"
    /\ redeem_events = <<[ok |-> TRUE, redeem_token |-> "abc123"],
                         [ok |-> TRUE, redeem_token |-> "tok2"]>>
    /\ token = "tok2"
    /\ child_stdout = <<TokenPayload("tok2")>>

\* C20: in an attempt where no captcha/redeem response is recorded, the
\* child's own timeout (up to 50 rounds sleeping at least one second each,
\* then 400 one-second sleeps) ends and the child prints its failure before
\* the parent's limit of 450 seconds expires: the child is never killed.
C20_SoftTimeoutBeforeHardKill ==
    redeem_events = <<>> =>
        /\ cpc # "killed"
        /\ cpc = "exited" => elapsed < wall_clock_timeout

=============================================================================
